---- MODULE Spec2Model ----
(***************************************************************************)
(* Toy Store API (main.py, schemas.py): the HTTP handlers over the two     *)
(* collections "toy" and "order" of a document store.                      *)
(*                                                                         *)
(* Representation.  Text that the code inspects character by character     *)
(* (toy names, the search parameter q, e-mail addresses, identifiers in    *)
(* the URL) is a sequence of one-character strings; other text is a        *)
(* string.  Money is in cents and a rating in tenths, so 19.99 is 1999     *)
(* and 4.5 is 45.  An Optional value is <<>> for None and <<v>> for v.     *)
(* A JSON body is a record whose DOMAIN is the set of keys it holds.       *)
(***************************************************************************)
EXTENDS Integers, Sequences, FiniteSets, TLC

VARIABLES
  db,            \* TRUE iff the module-level store handle is not None
  toy,           \* collection "toy": its documents in insertion order
  order,         \* collection "order"
  seed,          \* per seed request in flight: where it is in seed_sample_toys
  req,           \* the request whose response is on the wire
  resp,          \* the response on the wire (NoMessage if none): a handler
                 \* step puts it there and the client takes it off
  seedInserted,  \* history: documents inserted by seed requests
  failures,      \* history: store calls that failed
  clean,         \* history: seed requests ran one after the other, every
                 \* insert of theirs succeeded, and no toy was created
  created        \* history: {identifier returned, body} of each created toy

vars == <<db, toy, order, seed, req, resp,
          seedInserted, failures, clean, created>>

store == <<toy, order>>

Events == Cardinality(created) + Len(order) + failures
history == <<seedInserted, failures, clean, created>>

(* ------------------------------ bounds --------------------------------- *)
\* Toys and orders created by POST requests, plus store calls that failed.
MaxEvents == 1
SeedProcs == {1, 2}

(* ----------------------------- text helpers ---------------------------- *)
UpperToLower ==
  [A |-> "a", B |-> "b", C |-> "c", D |-> "d", E |-> "e", F |-> "f",
   G |-> "g", H |-> "h", I |-> "i", J |-> "j", K |-> "k", L |-> "l",
   M |-> "m", N |-> "n", O |-> "o", P |-> "p", Q |-> "q", R |-> "r",
   S |-> "s", T |-> "t", U |-> "u", V |-> "v", W |-> "w", X |-> "x",
   Y |-> "y", Z |-> "z"]

Lower(c) == IF c \in DOMAIN UpperToLower THEN UpperToLower[c] ELSE c

None == <<>>
Some(v) == <<v>>

(* ------------------------- bson.ObjectId ------------------------------- *)
\* An ObjectId is 12 bytes; str() renders 24 lower-case hex digits and
\* ObjectId(s) accepts exactly 24 hex digits of either case.
OidBytes == 12
HexDigits == <<"0","1","2","3","4","5","6","7","8","9","a","b","c","d","e","f">>

\* int(c, 16) for the characters it accepts.
HexValue ==
  [v \in {HexDigits[i] : i \in 1..16} |->
     CHOOSE n \in 0..15 : HexDigits[n + 1] = v]

IsHexDigit(c) == Lower(c) \in DOMAIN HexValue
HexVal(c) == HexValue[Lower(c)]

ObjectIdValid(s) ==
  /\ Len(s) = 2 * OidBytes
  /\ \A i \in 1..Len(s) : IsHexDigit(s[i])

ObjectId(s) ==
  [i \in 1..OidBytes |-> 16 * HexVal(s[2 * i - 1]) + HexVal(s[2 * i])]

Str(oid) ==
  [i \in 1..(2 * Len(oid)) |->
     IF i % 2 = 1 THEN HexDigits[(oid[(i + 1) \div 2] \div 16) + 1]
                  ELSE HexDigits[(oid[i \div 2] % 16) + 1]]

\* A fresh identifier per insert, unique across the collections: here the
\* collection's number in the first byte and the insert's in the last.
GenObjectId(c, n) ==
  [i \in 1..OidBytes |->
     IF i = 1 THEN c ELSE IF i = OidBytes THEN (171 + n) % 256 ELSE 0]

ToyCollection == 0
OrderCollection == 1

(* ------------------------ schemas.py / request models ------------------ *)
\* CreateToy (request body model): name, price and category are required;
\* a body that lacks one never reaches the handler.
CreateToyAccepts(body) == {"name", "price", "category"} \subseteq DOMAIN body

Field(body, key, default) == IF key \in DOMAIN body THEN body[key] ELSE default

DefaultRating == 45

\* Faulty variant: the optional fields lose their defaults.
CreateToyDumpNoDefaults(body) ==
  [name        |-> body.name,
   description |-> Field(body, "description", None),
   price       |-> body.price,
   category    |-> body.category,
   image       |-> Field(body, "image", None),
   rating      |-> Field(body, "rating", None),
   in_stock    |-> Field(body, "in_stock", FALSE)]

\* payload.model_dump() of an accepted CreateToy body, defaults filled in.
CreateToyDump(body) ==
  [name        |-> body.name,
   description |-> Field(body, "description", None),
   price       |-> body.price,
   category    |-> body.category,
   image       |-> Field(body, "image", None),
   rating      |-> Field(body, "rating", Some(DefaultRating)),
   in_stock    |-> Field(body, "in_stock", TRUE)]

\* Toy(**fields): price >= 0, rating None or within [0, 5].
MaxRating == 50
ToyValid(d) ==
  /\ d.price >= 0
  /\ d.rating # None => (d.rating[1] >= 0 /\ d.rating[1] <= MaxRating)

\* CreateOrder (request body model): customer_email is a plain str and
\* items a list of arbitrary dicts there.
CreateOrderAccepts(body) ==
  {"customer_name", "customer_email", "customer_address",
   "items", "subtotal", "total"} \subseteq DOMAIN body

CreateOrderDump(body) ==
  [customer_name    |-> body.customer_name,
   customer_email   |-> body.customer_email,
   customer_address |-> body.customer_address,
   items            |-> body.items,
   subtotal         |-> body.subtotal,
   shipping         |-> Field(body, "shipping", 0),
   total            |-> body.total,
   notes            |-> Field(body, "notes", None)]

\* EmailStr: one "@", something before it, and after it a domain that holds
\* a period which is neither its first nor its last character.
EmailValid(e) ==
  /\ Cardinality({i \in 1..Len(e) : e[i] = "@"}) = 1
  /\ LET at == CHOOSE i \in 1..Len(e) : e[i] = "@"
     IN  /\ at > 1
         /\ \E i \in (at + 2)..(Len(e) - 1) : e[i] = "."
         /\ e[at + 1] # "."

OrderItemValid(it) ==
  /\ {"toy_id", "name", "price", "quantity"} \subseteq DOMAIN it
  /\ it.price >= 0
  /\ it.quantity >= 1

OrderItemDump(it) ==
  [toy_id   |-> it.toy_id,
   name     |-> it.name,
   price    |-> it.price,
   quantity |-> it.quantity,
   image    |-> Field(it, "image", None)]

\* Order(**fields): note that the schema itself accepts an empty items list.
OrderValid(d) ==
  /\ EmailValid(d.customer_email)
  /\ \A i \in 1..Len(d.items) : OrderItemValid(d.items[i])
  /\ d.subtotal >= 0
  /\ d.shipping >= 0
  /\ d.total >= 0

OrderDump(d) ==
  [d EXCEPT !.items = [i \in 1..Len(d.items) |-> OrderItemDump(d.items[i])]]

(* ----------------------- document store gateway ------------------------ *)
\* insert_one / create_document: the document is stored under a freshly
\* generated _id, at the end of the collection.
InsertDocument(c, coll, doc) ==
  Append(coll, [_id |-> GenObjectId(c, Len(coll))] @@ doc)

\* create_document returns the generated identifier as a string.
CreateDocumentResult(c, coll) == Str(GenObjectId(c, Len(coll)))

\* What a failed insert surfaces as.
StoreUnavailableStatus == 503

\* {"$regex": q, "$options": "i"}: the pattern is searched for anywhere in
\* the value, letters compared without case, "." matching any character.
\* (Patterns are drawn from literals and "." only.)
RegexSearch(pattern, text) ==
  \E i \in 0..(Len(text) - Len(pattern)) :
     \A j \in 1..Len(pattern) :
        \/ pattern[j] = "."
        \/ Lower(pattern[j]) = Lower(text[i + j])

\* A filter holds, per field, None (the key is absent) or the condition.
FilterMatches(doc, f) ==
  /\ f.category # None => doc.category = f.category[1]
  /\ f.name # None => RegexSearch(f.name[1].regex, doc.name)

Min(a, b) == IF a <= b THEN a ELSE b

\* get_documents(collection, filter_dict, limit): the first `limit`
\* documents that match, in insertion order.
GetDocuments(coll, f, limit) ==
  LET Test(d) == FilterMatches(d, f)
      hits == SelectSeq(coll, Test)
  IN  SubSeq(hits, 1, Min(limit, Len(hits)))

\* db[collection].find_one({"_id": oid}): the set of matching documents
\* (empty when there is none; identifiers are unique).
FindOne(coll, oid) == {coll[i] : i \in {j \in 1..Len(coll) : coll[j]._id = oid}}

\* Faulty variant: the count is taken with a filter that matches nothing.
CountDocumentsNoMatch(coll) == 0

\* db[collection].count_documents({})
CountDocuments(coll) == Len(coll)

\* doc["_id"] = str(doc["_id"])
Render(doc) == [doc EXCEPT !._id = Str(doc._id)]

(* ------------------------------ HTTP layer ----------------------------- *)
\* The status the framework answers with when a request ends in an error:
\* an HTTPException carries its own, a body the request model rejects is
\* 422, a store failure is StoreUnavailableStatus, and any other exception
\* that leaves a handler is 500.
StatusOf(exc) ==
  CASE exc.kind = "HTTPException" -> exc.status
    [] exc.kind = "RequestValidationError" -> 422
    [] exc.kind = "StoreUnavailable" -> StoreUnavailableStatus
    [] OTHER -> 500

HTTPException(status, detail) ==
  [kind |-> "HTTPException", status |-> status, detail |-> detail]

Error(op, exc) ==
  [op |-> op, status |-> StatusOf(exc), body |-> [error |-> exc.kind]]

Ok(op, status, body) == [op |-> op, status |-> status, body |-> body]

NoMessage == [op |-> "none"]

(* ------------------------------- inputs -------------------------------- *)
BearName == <<"B","e","a","r">>
RobotName == <<"R","o","b","o","t">>

ToyBodies ==
  { [name |-> BearName, price |-> 1999, category |-> "Plush"],
    [name |-> RobotName, price |-> 0, category |-> "STEM",
     description |-> Some("kit"), rating |-> Some(50), in_stock |-> FALSE],
    [name |-> RobotName, price |-> 4999, category |-> "stem",
     rating |-> None, image |-> Some("http://img")],
    [price |-> 500, category |-> "Plush"],
    [name |-> BearName, category |-> "Plush", rating |-> Some(-1)],
    [name |-> BearName, price |-> -1, category |-> "Plush"],
    [name |-> BearName, price |-> 1999, category |-> "Plush", rating |-> Some(51)] }

GoodEmail == <<"a","@","b",".","c","o">>
NoAtEmail == <<"a","b","c">>
NoDotEmail == <<"a","@","b">>

GoodItem == [toy_id |-> "t1", name |-> "Bear", price |-> 1999, quantity |-> 1]
ZeroQuantityItem == [toy_id |-> "t1", name |-> "Bear", price |-> 1999, quantity |-> 0]
NoToyIdItem == [name |-> "Bear", price |-> 1999, quantity |-> 1]

GoodOrder ==
  [customer_name |-> "Ann", customer_email |-> GoodEmail,
   customer_address |-> "1 Main St", items |-> <<GoodItem>>,
   subtotal |-> 1999, total |-> 1999]

OrderBodies ==
  { GoodOrder,
    [GoodOrder EXCEPT !.items = <<GoodItem, GoodItem>>] @@
      [shipping |-> 500, notes |-> Some("ring twice")],
    [GoodOrder EXCEPT !.items = <<>>],
    [GoodOrder EXCEPT !.items = <<>>, !.customer_email = NoAtEmail,
                      !.subtotal = -1],
    [k \in DOMAIN GoodOrder \ {"customer_name"} |->
       IF k = "items" THEN <<>> ELSE GoodOrder[k]],
    [k \in DOMAIN GoodOrder \ {"items"} |-> GoodOrder[k]],
    [GoodOrder EXCEPT !.customer_email = NoAtEmail],
    [GoodOrder EXCEPT !.items = <<ZeroQuantityItem>>],
    [GoodOrder EXCEPT !.items = <<GoodItem, NoToyIdItem>>],
    [GoodOrder EXCEPT !.customer_email = NoDotEmail, !.total = -1] }

LowerToUpperHex ==
  [a |-> "A", b |-> "B", c |-> "C", d |-> "D", e |-> "E", f |-> "F"]

UpperHex(s) ==
  [i \in 1..Len(s) |->
     IF s[i] \in DOMAIN LowerToUpperHex THEN LowerToUpperHex[s[i]] ELSE s[i]]

NotAnId == <<"n","o","t","-","a","n","-","i","d">>

\* Identifiers a client may ask for: those of the stored documents (as
\* returned, and in upper case), the first one the store will ever hand
\* out, one it never hands out, and malformed ones.
ToyIdInputs ==
  LET known == {Str(toy[i]._id) : i \in 1..Len(toy)}
               \cup {Str(order[i]._id) : i \in 1..Len(order)}
               \cup {Str(GenObjectId(ToyCollection, 0))}
  IN  known
      \cup {UpperHex(Str(GenObjectId(ToyCollection, 0)))}
      \cup { [i \in 1..(2 * OidBytes) |-> "f"],
             [i \in 1..(2 * OidBytes) |-> IF i = 1 THEN "g" ELSE "0"],
             [i \in 1..(2 * OidBytes - 1) |-> "0"],
             NotAnId }

Categories == {None, Some(""), Some("STEM"), Some("stem")}

Queries ==
  {None, Some(<<>>), Some(<<"r","o","b","o","t">>), Some(<<"E","A">>),
   Some(<<"r",".","b">>)}

(* ------------------------------ main.py -------------------------------- *)
\* samples of seed_sample_toys
CuddlyBear ==
  [name |-> <<"C","u","d","d","l","y"," ","B","e","a","r">>,
   description |-> Some("Super soft plush bear."),
   price |-> 1999, category |-> "Plush",
   image |-> Some("https://images.unsplash.com/photo-1612198185720-2d3a9c5a4f8e"),
   rating |-> Some(47), in_stock |-> TRUE]

RainbowStackingRings ==
  [name |-> <<"R","a","i","n","b","o","w"," ","S","t","a","c","k","i","n","g",
              " ","R","i","n","g","s">>,
   description |-> Some("Classic stacking rings for toddlers."),
   price |-> 1499, category |-> "Educational",
   image |-> Some("https://images.unsplash.com/photo-1582582621959-48f5f1d7fca1"),
   rating |-> Some(46), in_stock |-> TRUE]

StemRobotKit ==
  [name |-> <<"S","T","E","M"," ","R","o","b","o","t"," ","K","i","t">>,
   description |-> Some("Build and program your own robot."),
   price |-> 4999, category |-> "STEM",
   image |-> Some("https://images.unsplash.com/photo-1581090464777-f3220bbe1b8b"),
   rating |-> Some(48), in_stock |-> TRUE]

samples == <<CuddlyBear, RainbowStackingRings, StemRobotKit>>

Truthy(opt, empty) == opt # None /\ opt[1] # empty

\* list_toys: filter_dict
ListFilter(category, q) ==
  [category |-> IF Truthy(category, "") THEN Some(category[1]) ELSE None,
   name     |-> IF Truthy(q, <<>>)
                  THEN Some([regex |-> q[1], options |-> "i"]) ELSE None]

ListLimit == 100

ListToysResponse(category, q) ==
  IF ~db THEN Ok("list_toys", 200, <<>>)
  ELSE LET toys == GetDocuments(toy, ListFilter(category, q), ListLimit)
       IN  Ok("list_toys", 200, [i \in 1..Len(toys) |-> Render(toys[i])])

ListToys(category, q) ==
  /\ resp = NoMessage
  /\ req' = [op |-> "list_toys", category |-> category, q |-> q]
  /\ resp' = ListToysResponse(category, q)
  /\ UNCHANGED <<db, store, seed, history>>

\* Faulty variant: the Toy schema is applied before the handle is looked at.
CreateToyOutcomeValidateFirst(body) ==
  IF ~CreateToyAccepts(body)
    THEN [kind |-> "error", exc |-> [kind |-> "RequestValidationError"]]
  ELSE IF ~ToyValid(CreateToyDump(body))
    THEN [kind |-> "error", exc |-> [kind |-> "ValidationError"]]
  ELSE IF ~db
    THEN [kind |-> "error", exc |-> HTTPException(503, "Database unavailable")]
  ELSE [kind |-> "insert", doc |-> CreateToyDump(body)]

\* create_toy up to the store call: the error it ends in, or the document
\* it hands to create_document.
CreateToyOutcome(body) ==
  IF ~CreateToyAccepts(body)
    THEN [kind |-> "error", exc |-> [kind |-> "RequestValidationError"]]
  ELSE IF ~db
    THEN [kind |-> "error", exc |-> HTTPException(503, "Database unavailable")]
  ELSE IF ~ToyValid(CreateToyDump(body))
    THEN [kind |-> "error", exc |-> [kind |-> "ValidationError"]]
  ELSE [kind |-> "insert", doc |-> CreateToyDump(body)]

CreateToy(body) ==
  LET out == CreateToyOutcome(body) IN
  /\ resp = NoMessage
  /\ req' = [op |-> "create_toy", body |-> body]
  /\ \/ /\ out.kind = "error"
        /\ resp' = Error("create_toy", out.exc)
        /\ UNCHANGED <<store, history>>
     \/ /\ out.kind = "insert"
        /\ Events < MaxEvents
        /\ toy' = InsertDocument(ToyCollection, toy, out.doc)
        /\ resp' = Ok("create_toy", 201,
                      [_id |-> CreateDocumentResult(ToyCollection, toy)])
        /\ created' = created \cup
             {[id |-> CreateDocumentResult(ToyCollection, toy), body |-> body]}
        /\ clean' = FALSE
        /\ UNCHANGED <<order, seedInserted, failures>>
     \/ /\ out.kind = "insert"
        /\ Events < MaxEvents
        /\ failures' = failures + 1
        /\ resp' = Error("create_toy", [kind |-> "StoreUnavailable"])
        /\ UNCHANGED <<store, seedInserted, clean, created>>
  /\ UNCHANGED <<db, seed>>

\* Faulty variant: a malformed identifier is looked up like any other and not found.
GetToyResponseNoIdCheck(toy_id) ==
  IF ~db
    THEN Error("get_toy", HTTPException(503, "Database unavailable"))
  ELSE LET doc == IF ObjectIdValid(toy_id)
                    THEN FindOne(toy, ObjectId(toy_id)) ELSE {} IN
       IF doc = {}
         THEN Error("get_toy", HTTPException(404, "Toy not found"))
       ELSE Ok("get_toy", 200, Render(CHOOSE d \in doc : TRUE))

\* Faulty variant: the identifier is parsed before the handle is looked at.
GetToyResponseIdFirst(toy_id) ==
  IF ~ObjectIdValid(toy_id)
    THEN Error("get_toy", HTTPException(400, "Invalid toy id"))
  ELSE IF ~db
    THEN Error("get_toy", HTTPException(503, "Database unavailable"))
  ELSE LET doc == FindOne(toy, ObjectId(toy_id)) IN
       IF doc = {}
         THEN Error("get_toy", HTTPException(404, "Toy not found"))
       ELSE Ok("get_toy", 200, Render(CHOOSE d \in doc : TRUE))

GetToyResponse(toy_id) ==
  IF ~db
    THEN Error("get_toy", HTTPException(503, "Database unavailable"))
  ELSE IF ~ObjectIdValid(toy_id)
    THEN Error("get_toy", HTTPException(400, "Invalid toy id"))
  ELSE LET doc == FindOne(toy, ObjectId(toy_id)) IN
       IF doc = {}
         THEN Error("get_toy", HTTPException(404, "Toy not found"))
       ELSE Ok("get_toy", 200, Render(CHOOSE d \in doc : TRUE))

GetToy(toy_id) ==
  /\ resp = NoMessage
  /\ req' = [op |-> "get_toy", toy_id |-> toy_id]
  /\ resp' = GetToyResponse(toy_id)
  /\ UNCHANGED <<db, store, seed, history>>

\* Faulty variant: the check "if not payload.items" is left out.
CreateOrderOutcomeNoItemsCheck(body) ==
  IF ~CreateOrderAccepts(body)
    THEN [kind |-> "error", exc |-> [kind |-> "RequestValidationError"]]
  ELSE IF ~db
    THEN [kind |-> "error", exc |-> HTTPException(503, "Database unavailable")]
  ELSE IF ~OrderValid(CreateOrderDump(body))
    THEN [kind |-> "error", exc |-> [kind |-> "ValidationError"]]
  ELSE [kind |-> "insert", doc |-> OrderDump(CreateOrderDump(body))]

\* create_order up to the store call.
CreateOrderOutcome(body) ==
  IF ~CreateOrderAccepts(body)
    THEN [kind |-> "error", exc |-> [kind |-> "RequestValidationError"]]
  ELSE IF ~db
    THEN [kind |-> "error", exc |-> HTTPException(503, "Database unavailable")]
  ELSE IF CreateOrderDump(body).items = <<>>
    THEN [kind |-> "error",
          exc |-> HTTPException(400, "Order must contain at least one item")]
  ELSE IF ~OrderValid(CreateOrderDump(body))
    THEN [kind |-> "error", exc |-> [kind |-> "ValidationError"]]
  ELSE [kind |-> "insert", doc |-> OrderDump(CreateOrderDump(body))]

CreateOrder(body) ==
  LET out == CreateOrderOutcome(body) IN
  /\ resp = NoMessage
  /\ req' = [op |-> "create_order", body |-> body]
  /\ \/ /\ out.kind = "error"
        /\ resp' = Error("create_order", out.exc)
        /\ UNCHANGED <<store, failures>>
     \/ /\ out.kind = "insert"
        /\ Events < MaxEvents
        /\ order' = InsertDocument(OrderCollection, order, out.doc)
        /\ resp' = Ok("create_order", 201,
                      [order_id |-> CreateDocumentResult(OrderCollection, order)])
        /\ UNCHANGED <<toy, failures>>
     \/ /\ out.kind = "insert"
        /\ Events < MaxEvents
        /\ failures' = failures + 1
        /\ resp' = Error("create_order", [kind |-> "StoreUnavailable"])
        /\ UNCHANGED store
  /\ UNCHANGED <<db, seed, seedInserted, clean, created>>

\* seed_sample_toys, first part: the handle check, the count and the
\* branch on it.  The inserts that follow are separate store calls, so
\* other requests may run between them.
\* (landed is history: the inserts of this request that succeeded.)
Idle == [pc |-> "idle", count |-> 0, i |-> 1, inserted |-> 0, landed |-> 0]

SeedBegin(p) ==
  /\ resp = NoMessage
  /\ seed[p].pc = "idle"
  /\ clean' = (clean /\ \A o \in SeedProcs : seed[o].pc = "idle")
  /\ IF ~db
       THEN /\ req' = [op |-> "seed", proc |-> p]
            /\ resp' = Ok("seed", 200, [status |-> "Database unavailable"])
            /\ UNCHANGED seed
     ELSE IF CountDocuments(toy) > 0
       THEN /\ req' = [op |-> "seed", proc |-> p]
            /\ resp' = Ok("seed", 200, [status |-> "already-seeded",
                                        count |-> CountDocuments(toy)])
            /\ UNCHANGED seed
     ELSE /\ seed' = [seed EXCEPT ![p] =
                        [pc |-> "insert", count |-> CountDocuments(toy),
                         i |-> 1, inserted |-> 0, landed |-> 0]]
          /\ req' = NoMessage
          /\ resp' = NoMessage
  /\ UNCHANGED <<db, store, seedInserted, failures, created>>

\* Faulty variant: "inserted += 1" sits outside the try block.
TallyAlways(inserted, ok) == inserted + 1

\* inserted after one turn of the loop "for s in samples".
Tally(inserted, ok) == IF ok THEN inserted + 1 ELSE inserted

\* One turn of the loop: create_document("toy", s) succeeds or raises, and
\* the exception is passed over.  After the last sample the handler returns.
SeedInsert(p) ==
  /\ resp = NoMessage
  /\ seed[p].pc = "insert"
  /\ \E ok \in BOOLEAN :
       LET inserted == Tally(seed[p].inserted, ok) IN
       /\ IF ok
            THEN /\ toy' = InsertDocument(ToyCollection, toy, samples[seed[p].i])
                 /\ seedInserted' = seedInserted + 1
                 /\ UNCHANGED failures
            ELSE /\ Events < MaxEvents
                 /\ failures' = failures + 1
                 /\ UNCHANGED <<toy, seedInserted>>
       /\ clean' = (clean /\ ok)
       /\ IF seed[p].i = Len(samples)
            THEN /\ seed' = [seed EXCEPT ![p] = Idle]
                 /\ req' = [op |-> "seed", proc |-> p]
                 /\ resp' = Ok("seed", 200,
                               [status |-> "seeded", inserted |-> inserted])
            ELSE /\ seed' = [seed EXCEPT ![p] =
                               [@ EXCEPT !.i = @ + 1, !.inserted = inserted,
                                         !.landed = IF ok THEN @ + 1 ELSE @]]
                 /\ req' = NoMessage
                 /\ resp' = NoMessage
  /\ UNCHANGED <<db, order, created>>

\* test_database: db.list_collection_names() may raise; nothing leaves the
\* handler as an error.
CollectionNames ==
  (IF Len(toy) > 0 THEN <<"toy">> ELSE <<>>) \o
  (IF Len(order) > 0 THEN <<"order">> ELSE <<>>)

TestDatabaseResponse(listOk) ==
  Ok("test", 200,
     IF ~db
       THEN [backend |-> "Running", database |-> "Available but not initialized",
             connection_status |-> "Not Connected", collections |-> <<>>]
     ELSE IF listOk
       THEN [backend |-> "Running", database |-> "Connected & Working",
             connection_status |-> "Connected",
             collections |-> SubSeq(CollectionNames, 1,
                                    Min(10, Len(CollectionNames)))]
     ELSE [backend |-> "Running", database |-> "Connected but Error",
           connection_status |-> "Connected", collections |-> <<>>])

TestDatabase ==
  /\ resp = NoMessage
  /\ \E listOk \in BOOLEAN :
       /\ req' = [op |-> "test"]
       /\ resp' = TestDatabaseResponse(listOk)
  /\ UNCHANGED <<db, store, seed, history>>

\* The client takes the response off the wire.
Receive ==
  /\ resp # NoMessage
  /\ req' = NoMessage
  /\ resp' = NoMessage
  /\ UNCHANGED <<db, store, seed, history>>

(* --------------------------- the state machine ------------------------- *)
\* The handle is set once, when the module is imported, and both
\* collections of a fresh store are empty.
Init ==
  /\ db \in BOOLEAN
  /\ toy = <<>>
  /\ order = <<>>
  /\ seed = [p \in SeedProcs |-> Idle]
  /\ req = NoMessage
  /\ resp = NoMessage
  /\ seedInserted = 0
  /\ failures = 0
  /\ clean = TRUE
  /\ created = {}

Next ==
  \/ \E category \in Categories, q \in Queries : ListToys(category, q)
  \/ \E body \in ToyBodies : CreateToy(body)
  \/ \E toy_id \in ToyIdInputs : GetToy(toy_id)
  \/ \E body \in OrderBodies : CreateOrder(body)
  \/ \E p \in SeedProcs : SeedBegin(p)
  \/ \E p \in SeedProcs : SeedInsert(p)
  \/ TestDatabase
  \/ Receive

Spec == Init /\ [][Next]_vars

(* ================================ claims =============================== *)
\* A stored document without its identifier, and a collection of them.
StripId(doc) == [k \in DOMAIN doc \ {"_id"} |-> doc[k]]
Stored(coll) == [i \in 1..Len(coll) |-> StripId(coll[i])]

\* C1: from an empty toy collection, with the store available and no
\* insert failing, the first of two successive seed requests inserts
\* exactly the 3 samples and answers "seeded" with inserted = 3; the second
\* answers "already-seeded" with count = 3 and leaves the collection as it
\* is.  (clean: the seed requests so far ran one after the other, none of
\* their inserts failed and no toy was created.)
C1_SeedTwice ==
  [][ /\ (db /\ clean' /\ resp'.op = "seed" /\ resp'.body.status = "seeded")
           => (resp'.body.inserted = 3 /\ Stored(toy') = samples)
      /\ (db /\ clean /\ clean' /\ Stored(toy) = samples /\ resp'.op = "seed")
           => (/\ resp'.body = [status |-> "already-seeded", count |-> 3]
               /\ toy' = toy)
    ]_vars

C1_Witness ==
  /\ clean
  /\ resp.op = "seed"
  /\ resp.body.status = "already-seeded"
  /\ resp.body.count = 3
  /\ Stored(toy) = samples

\* C2: a seed request inserts only if it found the toy collection empty,
\* and the toys inserted by all seed requests together never number more
\* than 3, however seed and create-toy requests interleave.
C2_SeedInsertsAtMostThree ==
  /\ \A p \in SeedProcs : seed[p].pc = "insert" => seed[p].count = 0
  /\ seedInserted <= 3

\* C3: with the store available, a toy body that violates the Toy schema
\* (no name, a negative price, a rating outside [0, 5]) and an order body
\* whose customer_email is no e-mail address are answered 422, and nothing
\* is persisted.
ToySchemaViolated(body) ==
  \/ "name" \notin DOMAIN body
  \/ "price" \in DOMAIN body /\ body.price < 0
  \/ /\ "rating" \in DOMAIN body
     /\ body.rating # None
     /\ (body.rating[1] < 0 \/ body.rating[1] > 50)

NotAnEmail(e) ==
  ~ \E i, j \in 1..Len(e) :
       /\ 1 < i /\ i + 1 < j /\ j < Len(e)
       /\ e[i] = "@" /\ e[j] = "."

OrderEmailViolated(body) ==
  /\ "customer_email" \in DOMAIN body
  /\ NotAnEmail(body.customer_email)
  /\ "items" \in DOMAIN body
  /\ body.items # <<>>

C3_InvalidPayload422 ==
  [][ (/\ db
       /\ \/ resp'.op = "create_toy" /\ ToySchemaViolated(req'.body)
          \/ resp'.op = "create_order" /\ OrderEmailViolated(req'.body))
        => (resp'.status = 422 /\ toy' = toy /\ order' = order)
    ]_vars

OrderRequired ==
  {"customer_name", "customer_email", "customer_address",
   "items", "subtotal", "total"}

HexChars ==
  {"0","1","2","3","4","5","6","7","8","9",
   "a","b","c","d","e","f","A","B","C","D","E","F"}

WellFormedId(s) == Len(s) = 24 /\ \A i \in 1..Len(s) : s[i] \in HexChars

LowerText(s) == [i \in 1..Len(s) |-> Lower(s[i])]

ToysWithId(s) == {i \in 1..Len(toy) : Str(toy[i]._id) = LowerText(s)}

C5_GetToyOutcomes ==
  [][ resp'.op = "get_toy" =>
        /\ toy' = toy
        /\ order' = order
        /\ IF ~db THEN resp'.status = 503
           ELSE IF ~WellFormedId(req'.toy_id) THEN resp'.status = 400
           ELSE IF ToysWithId(req'.toy_id) = {} THEN resp'.status = 404
           ELSE /\ resp'.status = 200
                /\ \E i \in ToysWithId(req'.toy_id) :
                     /\ StripId(resp'.body) = StripId(toy[i])
                     /\ resp'.body._id = LowerText(req'.toy_id)
    ]_vars

C5_Witness ==
  /\ resp.op = "get_toy"
  /\ resp.status = 200
  /\ req.toy_id # LowerText(req.toy_id)
  /\ Len(toy) > 1

\* C6: with the store available and the insert not failing, creating a toy
\* from a valid body (required fields present, price >= 0, rating absent,
\* null or within [0, 5]) is answered 201 with a fresh identifier, and any
\* later get-toy request for that identifier is answered 200 with the body
\* as sent, rating 4.5 and in_stock true filled in where it had none, plus
\* the identifier.
ValidToyBody(body) ==
  /\ {"name", "price", "category"} \subseteq DOMAIN body
  /\ body.price >= 0
  /\ "rating" \in DOMAIN body =>
       \/ body.rating = None
       \/ body.rating[1] >= 0 /\ body.rating[1] <= 50

ExpectedToy(body, id) ==
  [_id         |-> id,
   name        |-> body.name,
   description |-> IF "description" \in DOMAIN body THEN body.description ELSE None,
   price       |-> body.price,
   category    |-> body.category,
   image       |-> IF "image" \in DOMAIN body THEN body.image ELSE None,
   rating      |-> IF "rating" \in DOMAIN body THEN body.rating ELSE Some(45),
   in_stock    |-> IF "in_stock" \in DOMAIN body THEN body.in_stock ELSE TRUE]

C6_CreateThenGet ==
  [][ /\ (/\ db
          /\ resp'.op = "create_toy"
          /\ ValidToyBody(req'.body)
          /\ failures' = failures)
           => (/\ resp'.status = 201
               /\ WellFormedId(resp'.body._id)
               /\ \A i \in 1..Len(toy) : Str(toy[i]._id) # resp'.body._id
               /\ \A i \in 1..Len(order) : Str(order[i]._id) # resp'.body._id)
      /\ resp'.op = "get_toy" =>
           \A c \in created :
              c.id = req'.toy_id =>
                /\ resp'.status = 200
                /\ resp'.body = ExpectedToy(c.body, c.id)
    ]_vars

C6_Witness ==
  /\ resp.op = "get_toy"
  /\ resp.status = 200
  /\ Len(toy) > 1
  /\ \E c \in created :
       /\ c.id = req.toy_id
       /\ "rating" \notin DOMAIN c.body
       /\ resp.body.rating = Some(45)
       /\ resp.body.name = c.body.name

\* C7: whatever the toy collection holds and whatever category and q are,
\* a list request returns at most 100 documents, each a stored toy that
\* passes every filter given: its category equals the parameter exactly,
\* and its name contains q as a substring, letters compared without case.
\* (A parameter that is absent or empty counts as not given.)
Contains(text, part) ==
  \E i \in 0..(Len(text) - Len(part)) :
     \A j \in 1..Len(part) : Lower(text[i + j]) = Lower(part[j])

Given(param) == param # None /\ Len(param[1]) > 0

CategoryGiven(param) == param # None /\ param[1] # ""

C7_ListReturnsOnlyMatching ==
  resp.op = "list_toys" =>
    /\ Len(resp.body) <= 100
    /\ \A i \in 1..Len(resp.body) :
         /\ \E j \in 1..Len(toy) :
              /\ StripId(resp.body[i]) = StripId(toy[j])
              /\ resp.body[i]._id = Str(toy[j]._id)
         /\ CategoryGiven(req.category) => resp.body[i].category = req.category[1]
         /\ Given(req.q) => Contains(resp.body[i].name, req.q[1])

\* C8: with the store unavailable, a list request is answered 200 with an
\* empty array, a create-toy or create-order request whose body the request
\* model accepts and every get-toy request are answered 503, the
\* diagnostic request is answered 200 with a status text, and no request
\* changes a collection.
ToyRequired == {"name", "price", "category"}

====
